---- MODULE Spec2Model ----
(***************************************************************************)
(* Hydra -> moonshine synchronisation bridge (tigrazone/moonshine).        *)
(*                                                                         *)
(* One mesh record (HdMoonshineMesh), the material records                 *)
(* (HdMoonshineMaterial) of the render index, the render context's         *)
(* defaults (HdMoonshineRenderParam) and the renderer's handle tables, as  *)
(* far as the bridge's calls change them.                                  *)
(*                                                                         *)
(* Handles are positive integers handed out by counters; 0 is "no handle". *)
(* Matrices are abstracted to the multiplicative group {1, 2} mod 3 with   *)
(* identity 1: what the bridge does with matrices is multiply them and     *)
(* hand the product to the renderer.                                       *)
(***************************************************************************)
EXTENDS Integers, Sequences, FiniteSets, TLC

\* ------------------------------------------------------------------ bounds
MaxInst == 2            \* longest instancer result (ComputeInstanceTransforms)
MaxMeshHandles == 1     \* mesh handles the renderer hands out
MaxMaterialSyncs == 2   \* material Syncs the texture handles last for
\* instance handles the renderer hands out
MaxInstanceHandles == MaxInst + 1

\* ------------------------------------------------------------ value spaces
Flags == {"Points", "Transform", "Instancer", "Visibility", "MaterialId", "Other"}
Xforms == {1, 2}
Identity == 1
MaterialIds == {1, 2}
PointArrays == {<<>>, <<10, 20, 30>>}
Topology == <<<<1, 2, 3>>>>   \* ComputeTriangleIndices: one triangle
\* the material ids the host realizes as material records; a binding to any
\* other path names a material the render index does not hold
Realizable == {1}
\* what an instancer may return: every length, two value patterns each
InstancerResults ==
    {[i \in 1..n |-> ((i + v) % 2) + 1] : n \in 0..MaxInst, v \in 0..1}
\* what a read past the end of _instances may yield: no handle, or a handle
\* the renderer has handed out
GarbageHandles == {0, 1}
\* the dirty-bit sets Sync is called with
DirtySets ==
    {{}, {"Points"}, {"Transform"}, {"Instancer"}, {"Visibility"},
     {"MaterialId"}, {"Other"}, {"Transform", "Instancer"},
     {"Points", "Transform", "Visibility", "MaterialId"},
     {"Points", "Transform", "Instancer", "Visibility", "MaterialId"}, Flags}

VARIABLES
    \* the record the host is syncing in this behaviour: "mesh" or "material"
    \* (sync records are independent: a mesh Sync reads of a material record
    \* only its handle, which the material's constructor sets)
    entity,
    \* the call in progress and the step it is at ("idle": none)
    pc,
    \* HdMoonshineMesh
    mesh, material, transform, instancesTransforms, instances,
    visible, instancerId, finalized,
    \* locals of HdMoonshineMesh::Sync
    dirtyBits, mesh_changed, old_visibility, materialId, material_changed,
    transform_changed, syncInstancerId, old_len,
    \* render index: the material records that exist, by material path
    matHandle,
    \* locals of HdMoonshineMaterial::Sync: the network snapshot and the
    \* position of the loop over the declared inputs
    self, network, inputIdx,
    \* renderer
    rInstances, rDestroyed, nextInstance, nextMesh, nextMaterial,
    rMaterials, nextTexture,
    \* the last call: which, the dirty bits it was given, the renderer calls
    \* it has made, the errors it has reported
    lastOp, dirtyIn, calls, errors, crashed,
    \* whether the mesh record was as constructed when its last Sync began
    fresh,
    \* a function of the bridge applied on its own: the function and its
    \* arguments, and what it returns (its buffer written in place included)
    args, ret

meshVars == <<mesh, material, transform, instancesTransforms, instances,
              visible, instancerId, finalized>>
localVars == <<mesh_changed, old_visibility, materialId, material_changed,
               transform_changed, syncInstancerId, old_len>>
matLocalVars == <<self, network, inputIdx>>
rendererVars == <<rInstances, rDestroyed, nextInstance, nextMesh, nextMaterial>>
matRendererVars == <<rMaterials, nextTexture>>
callVars == <<lastOp, dirtyIn, calls, errors, crashed, fresh>>
fnVars == <<args, ret>>
recordVars == <<entity, pc, meshVars, dirtyBits, localVars, matHandle, matLocalVars,
                rendererVars, matRendererVars, callVars>>
vars == <<recordVars, fnVars>>

\* ----------------------------------------------------------- render context
\* the context's default textures, in the order its constructor creates them
Black3 == 1
Black1 == 2
UpNormal == 3
Grey3 == 4
White1 == 5
NumDefaultTextures == 5
DefaultTextures == {Black3, Black1, UpNormal, Grey3, White1}
DefaultMaterial == 1
\* ior 1.5, in tenths
DefaultIor == 15

\* the Material both constructors hand to HdMoonshineCreateMaterial
InitialMaterial ==
    [normal |-> UpNormal, emissive |-> Black3, color |-> Grey3,
     metalness |-> Black1, roughness |-> White1, ior |-> DefaultIor]

\* GfMatrix4f product
Mul(a, b) == (a * b) % 3

\* -------------------------------------------------------- mesh Sync: helpers

\* the dirty bits a new mesh is first synced with
GetInitialDirtyBitsMask ==
    {"Points", "Transform", "Instancer", "Visibility", "MaterialId"}

\* the record as its constructor and the members' initialisers leave it
AsConstructed ==
    /\ mesh = 0
    /\ material = DefaultMaterial
    /\ transform = Identity
    /\ instancesTransforms = <<>>
    /\ instances = <<>>
    /\ visible
    /\ instancerId = 0

\* variant: the missing-points branch without its return
AfterMissingPoints_Continue == "visibility"

\* where Sync goes after reporting missing points: it returns
AfterMissingPoints == "idle"

\* variant: Sync without the check for missing points
PointsMissing_Never(indexedPoints) == FALSE

\* the check that ends Sync for a mesh without points
PointsMissing(indexedPoints) == Len(indexedPoints) = 0

\* the points the mesh is built from: computed ones, else the authored ones
ResolvePoints(computed, authored) ==
    IF Len(computed) # 0 THEN computed ELSE authored

\* one entry per triangle corner
UnindexPoints(indices, indexedPoints) ==
    [k \in 1..(3 * Len(indices)) |->
        indexedPoints[indices[((k - 1) \div 3) + 1][((k - 1) % 3) + 1]]]

\* the material handle bound by the material-binding step
ResolveMaterial(path) ==
    IF path = 0 THEN DefaultMaterial
    ELSE IF matHandle[path] # 0 THEN matHandle[path]
    ELSE material

\* variant: without the single identity transform of a mesh without instancer
ComputeInstancesTransforms_NoIdentity(instancer, instanceTransforms) ==
    instanceTransforms

\* _instancesTransforms after the instancer step; instancer is the id the
\* record held when Sync read it, before _UpdateInstancer
ComputeInstancesTransforms(instancer, instanceTransforms) ==
    IF instancer = 0 THEN <<Identity>> ELSE instanceTransforms

\* The instancer_count_changed that need_to_recreate reads. It is the one
\* declared before the instancer step and initialised to false; the
\* comparison inside the step initialises a second variable of the same
\* name, local to the step's block.
InstancerCountChanged(oldLen, newLen) == FALSE

NeedToRecreate(meshChanged, instancerCountChanged, materialChanged) ==
    meshChanged \/ instancerCountChanged \/ materialChanged

IsClean(bits) == bits = {}

\* variant: Sync without its closing report
LeftoverReport_Silent(bits) == {}

LeftoverReport(bits) == IF IsClean(bits) THEN {} ELSE {"LeftoverDirty"}

RECURSIVE SetTransforms(_, _, _)
\* renderer state after HdMoonshineSetInstanceTransform on each target
SetTransforms(r, targets, matrices) ==
    IF targets = <<>> THEN r
    ELSE LET h == Head(targets)
             r1 == IF h \in DOMAIN r
                   THEN [r EXCEPT ![h].xf = Head(matrices)] ELSE r
         IN SetTransforms(r1, Tail(targets), Tail(matrices))

\* renderer state after HdMoonshineSetInstanceVisibility on each target
SetVisibilities(r, targets, v) ==
    [h \in DOMAIN r |->
        IF \E i \in 1..Len(targets) : targets[i] = h
        THEN [r[h] EXCEPT !.vis = v] ELSE r[h]]

\* renderer state after HdMoonshineDestroyInstance on each target
DestroyInstances(r, targets) ==
    [h \in DOMAIN r \ {targets[i] : i \in 1..Len(targets)} |-> r[h]]

\* variant: the first handle of the list is skipped
CountDestroyed_SkipFirst(c, targets) ==
    [h \in DOMAIN c |->
        c[h] + Cardinality({i \in 2..Len(targets) : targets[i] = h})]

CountDestroyed(c, targets) ==
    [h \in DOMAIN c |->
        c[h] + Cardinality({i \in 1..Len(targets) : targets[i] = h})]

\* the handles the in-place transform loop passes to the renderer: entry i
\* of _instances for every i below the number of transforms; past reads what
\* the reads past the end of _instances yield
TransformTargets(transformChanged, insts, newLen, past) ==
    IF transformChanged
    THEN [i \in 1..newLen |-> IF i <= Len(insts) THEN insts[i] ELSE past[i]]
    ELSE <<>>

\* variant: the visibility loop without the comparison with the old value
VisibilityTargets_Always(oldVisibility, newVisibility, insts) == insts

\* the handles the in-place visibility loop passes to the renderer
VisibilityTargets(oldVisibility, newVisibility, insts) ==
    IF oldVisibility # newVisibility THEN insts ELSE <<>>

CallsOf(op, targets) == [i \in 1..Len(targets) |-> <<op, targets[i]>>]

\* the locals of a Sync that has returned
ResetLocals ==
    /\ mesh_changed' = FALSE
    /\ old_visibility' = TRUE
    /\ materialId' = 0
    /\ material_changed' = FALSE
    /\ transform_changed' = FALSE
    /\ syncInstancerId' = 0
    /\ old_len' = 0

\* ---------------------------------------------------------------- mesh Sync

\* variant: the points flag is never seen dirty
IsPointsDirty_Never(d) == FALSE

\* variant: a dirty transform counts as dirty points
IsPointsDirty_OrTransform(d) == "Points" \in d \/ "Transform" \in d

\* HdChangeTracker::IsPrimvarDirty(*dirtyBits, id, HdTokens->points)
IsPointsDirty(d) == "Points" \in d

\* entry and the points step
MeshSyncPoints(d, computed, authored) ==
    /\ entity = "mesh"
    /\ UNCHANGED fnVars
    /\ pc = "idle"
    /\ ~finalized
    /\ ~crashed
    /\ UNCHANGED <<entity, matLocalVars, matRendererVars>>
    /\ d \cap {"Points", "MaterialId"} # {}
          => nextInstance + MaxInst <= MaxInstanceHandles + 1
    /\ lastOp' = "MeshSync"
    /\ dirtyIn' = d
    /\ mesh_changed' = IsPointsDirty(d)
    /\ fresh' = AsConstructed
    /\ UNCHANGED <<material, transform, instancesTransforms, instances, visible,
                   instancerId, finalized, matHandle, rInstances, rDestroyed,
                   nextInstance, nextMaterial, crashed,
                   old_visibility, materialId, material_changed,
                   transform_changed, syncInstancerId, old_len>>
    /\ IF IsPointsDirty(d)
       THEN LET indexedPoints == ResolvePoints(computed, authored) IN
            IF PointsMissing(indexedPoints)
            THEN /\ errors' = {"EmptyMesh"}
                 /\ calls' = <<>>
                 /\ dirtyBits' = d
                 /\ pc' = AfterMissingPoints
                 /\ UNCHANGED <<mesh, nextMesh>>
            ELSE LET points == UnindexPoints(Topology, indexedPoints) IN
                 /\ nextMesh <= MaxMeshHandles
                 /\ mesh' = nextMesh
                 /\ nextMesh' = nextMesh + 1
                 /\ calls' = <<<<"CreateMesh", nextMesh>>>>
                 /\ errors' = {}
                 /\ dirtyBits' = d \ {"Points"}
                 /\ pc' = "visibility"
       ELSE /\ errors' = {}
            /\ calls' = <<>>
            /\ dirtyBits' = d
            /\ pc' = "visibility"
            /\ UNCHANGED <<mesh, nextMesh>>

\* the visibility step; hostVisible is what the host reports
MeshSyncVisibility(hostVisible) ==
    /\ pc = "visibility"
    /\ UNCHANGED fnVars
    /\ UNCHANGED <<entity, matLocalVars, matRendererVars>>
    /\ old_visibility' = visible
    /\ IF "Visibility" \in dirtyBits
       THEN /\ visible' = hostVisible
            /\ dirtyBits' = dirtyBits \ {"Visibility"}
       ELSE UNCHANGED <<visible, dirtyBits>>
    /\ pc' = "material"
    /\ UNCHANGED <<mesh, material, transform, instancesTransforms, instances,
                   instancerId, finalized, matHandle, rendererVars, callVars,
                   mesh_changed, materialId, material_changed,
                   transform_changed, syncInstancerId, old_len>>

\* the material-binding step; hostMaterialId is GetMaterialId (0: empty path)
MeshSyncMaterial(hostMaterialId) ==
    /\ pc = "material"
    /\ UNCHANGED fnVars
    /\ UNCHANGED <<entity, matLocalVars, matRendererVars>>
    /\ material_changed' = ("MaterialId" \in dirtyBits)
    /\ IF "MaterialId" \in dirtyBits
       THEN /\ materialId' = hostMaterialId
            /\ material' = ResolveMaterial(hostMaterialId)
            /\ dirtyBits' = dirtyBits \ {"MaterialId"}
       ELSE UNCHANGED <<materialId, material, dirtyBits>>
    /\ pc' = "transform"
    /\ UNCHANGED <<mesh, transform, instancesTransforms, instances, visible,
                   instancerId, finalized, matHandle, rendererVars, callVars,
                   mesh_changed, old_visibility, transform_changed, syncInstancerId, old_len>>

\* the transform step; hostTransform is GetTransform
MeshSyncTransform(hostTransform) ==
    /\ pc = "transform"
    /\ UNCHANGED fnVars
    /\ UNCHANGED <<entity, matLocalVars, matRendererVars>>
    /\ transform_changed' = ("Transform" \in dirtyBits \/ "Instancer" \in dirtyBits)
    /\ IF "Transform" \in dirtyBits
       THEN /\ transform' = hostTransform
            /\ dirtyBits' = dirtyBits \ {"Transform"}
       ELSE UNCHANGED <<transform, dirtyBits>>
    /\ pc' = "instancer"
    /\ UNCHANGED <<mesh, material, instancesTransforms, instances, visible,
                   instancerId, finalized, matHandle, rendererVars, callVars,
                   mesh_changed, old_visibility, materialId, material_changed,
                   syncInstancerId, old_len>>

\* the instancer step; hostInstancerId is the host's instancer binding
\* (0: none), instanceTransforms what ComputeInstanceTransforms returns
MeshSyncInstancer(hostInstancerId, instanceTransforms) ==
    /\ pc = "instancer"
    /\ UNCHANGED fnVars
    /\ UNCHANGED <<entity, matLocalVars, matRendererVars>>
    /\ syncInstancerId' = instancerId
    /\ old_len' = Len(instancesTransforms)
    /\ IF "Instancer" \in dirtyBits
       THEN /\ instancerId' = hostInstancerId
            /\ instancesTransforms' =
                   ComputeInstancesTransforms(instancerId, instanceTransforms)
            /\ dirtyBits' = dirtyBits \ {"Instancer"}
       ELSE UNCHANGED <<instancerId, instancesTransforms, dirtyBits>>
    /\ pc' = "instances"
    /\ UNCHANGED <<mesh, material, transform, instances, visible, finalized,
                   matHandle, rendererVars, callVars, mesh_changed,
                   old_visibility, materialId, material_changed, transform_changed>>

\* rebuild or update of the instance handles, the leftover report, return
MeshSyncInstances ==
    /\ pc = "instances"
    /\ UNCHANGED fnVars
    /\ UNCHANGED <<entity, matLocalVars, matRendererVars>>
    /\ LET new_len == Len(instancesTransforms)
           instancer_count_changed ==
               IF "Instancer" \in dirtyIn THEN InstancerCountChanged(old_len, new_len)
               ELSE FALSE
           need_to_recreate ==
               NeedToRecreate(mesh_changed, instancer_count_changed, material_changed)
           matrices == [i \in 1..new_len |-> Mul(transform, instancesTransforms[i])]
       IN
       IF need_to_recreate
       THEN LET created == [i \in 1..new_len |-> nextInstance + i - 1]
                createdSet == {created[i] : i \in 1..new_len}
                r1 == DestroyInstances(rInstances, instances)
            IN
            /\ nextInstance + new_len <= MaxInstanceHandles + 1
            /\ instances' = created
            /\ nextInstance' = nextInstance + new_len
            /\ rDestroyed' = CountDestroyed(rDestroyed, instances)
            /\ rInstances' =
                  [h \in DOMAIN r1 \cup createdSet |->
                     IF h \in createdSet
                     THEN [xf |-> matrices[h - nextInstance + 1], mesh |-> mesh,
                           mat |-> material, vis |-> visible]
                     ELSE r1[h]]
            /\ calls' = calls \o CallsOf("DestroyInstance", instances)
                              \o CallsOf("CreateInstance", created)
            /\ crashed' = FALSE
       ELSE \* _instances[i] for every i below _instancesTransforms.size(): a
            \* read past the end of _instances yields any handle value, or
            \* the process dies
            \E garbage \in [(Len(instances) + 1)..(IF transform_changed THEN new_len ELSE 0)
                              -> GarbageHandles] :
            \E crash \in (IF transform_changed /\ new_len > Len(instances)
                          THEN BOOLEAN ELSE {FALSE}) :
            LET xfTargets == TransformTargets(transform_changed, instances, new_len,
                                             garbage)
                visTargets == VisibilityTargets(old_visibility, visible, instances)
                r1 == SetTransforms(rInstances, xfTargets, matrices)
                r2 == SetVisibilities(r1, visTargets, visible)
            IN
            /\ crashed' = crash
            /\ rInstances' = r2
            /\ calls' = calls \o CallsOf("SetInstanceTransform", xfTargets)
                              \o CallsOf("SetInstanceVisibility", visTargets)
            /\ UNCHANGED <<instances, nextInstance, rDestroyed>>
    /\ errors' = errors \cup LeftoverReport(dirtyBits)
    /\ pc' = "idle"
    /\ ResetLocals
    /\ UNCHANGED <<mesh, material, transform, instancesTransforms, visible,
                   instancerId, finalized, dirtyBits, matHandle, nextMesh,
                   nextMaterial, lastOp, dirtyIn, fresh>>

\* ------------------------------------------------------------- mesh Finalize
Finalize ==
    /\ entity = "mesh"
    /\ UNCHANGED fnVars
    /\ pc = "idle"
    /\ UNCHANGED <<entity, matLocalVars, matRendererVars>>
    /\ ~finalized
    /\ ~crashed
    /\ finalized' = TRUE
    /\ rDestroyed' = CountDestroyed(rDestroyed, instances)
    /\ rInstances' = DestroyInstances(rInstances, instances)
    /\ calls' = CallsOf("DestroyInstance", instances)
    /\ lastOp' = "Finalize"
    /\ dirtyIn' = {}
    /\ dirtyBits' = {}
    /\ errors' = {}
    /\ UNCHANGED <<pc, mesh, material, transform, instancesTransforms, instances,
                   visible, instancerId, localVars, matHandle, nextInstance,
                   nextMesh, nextMaterial, crashed, fresh>>

\* ------------------------------------------------------ material constructor
CreateMaterial(m) ==
    /\ pc = "idle"
    /\ UNCHANGED fnVars
    /\ ~crashed
    /\ matHandle[m] = 0
    /\ matHandle' = [matHandle EXCEPT ![m] = nextMaterial]
    /\ nextMaterial' = nextMaterial + 1
    /\ rMaterials' = [h \in DOMAIN rMaterials \cup {nextMaterial} |->
                        IF h = nextMaterial THEN InitialMaterial ELSE rMaterials[h]]
    /\ UNCHANGED <<entity, matLocalVars, nextTexture>>
    /\ calls' = <<<<"CreateMaterial", nextMaterial>>>>
    /\ lastOp' = "CreateMaterial"
    /\ dirtyIn' = {}
    /\ dirtyBits' = {}
    /\ errors' = {}
    /\ UNCHANGED <<pc, meshVars, localVars, rInstances, rDestroyed, nextInstance,
                   nextMesh, crashed, fresh>>

\* ------------------------------------------------ texture ingest: formats

\* HioGetFormat: the format of n components of the type; the sRGB variants
\* exist for the 8-bit normalised type only
HioGetFormat(n, type, isSRGB) ==
    [comps |-> n, type |-> type, srgb |-> isSRGB /\ type = "UNorm8"]

\* variant: three 8-bit components taken for two
usdFormatToMsneFormat_Vec3AsVec2(format) ==
    IF format.type = "Float16" /\ format.comps = 3 THEN "f16x4"
    ELSE IF format.type = "UNorm8" /\ format.comps = 1 /\ ~format.srgb THEN "u8x1"
    ELSE IF format.type = "UNorm8" /\ format.comps = 2 /\ ~format.srgb THEN "u8x2"
    ELSE IF format.type = "UNorm8" /\ format.comps = 4 /\ ~format.srgb THEN "u8x4"
    ELSE IF format.type = "UNorm8" /\ format.comps = 3 /\ ~format.srgb THEN "u8x2"
    ELSE IF format.type = "UNorm8" /\ format.comps = 4 /\ format.srgb THEN "u8x4_srgb"
    ELSE IF format.type = "UNorm8" /\ format.comps = 3 /\ format.srgb THEN "u8x4_srgb"
    ELSE "none"

usdFormatToMsneFormat(format) ==
    IF format.type = "Float16" /\ format.comps = 3 THEN "f16x4"
    ELSE IF format.type = "UNorm8" /\ format.comps = 1 /\ ~format.srgb THEN "u8x1"
    ELSE IF format.type = "UNorm8" /\ format.comps = 2 /\ ~format.srgb THEN "u8x2"
    ELSE IF format.type = "UNorm8" /\ format.comps = 4 /\ ~format.srgb THEN "u8x4"
    ELSE IF format.type = "UNorm8" /\ format.comps = 3 /\ ~format.srgb THEN "u8x4"
    ELSE IF format.type = "UNorm8" /\ format.comps = 4 /\ format.srgb THEN "u8x4_srgb"
    ELSE IF format.type = "UNorm8" /\ format.comps = 3 /\ format.srgb THEN "u8x4_srgb"
    ELSE "none"

\* scene values: an asset path to an image of a format, a GfVec3f, a float,
\* anything else
Asset(comps, type) == [t |-> "asset", comps |-> comps, type |-> type, x |-> 0]
Vec3 == [t |-> "vec3", comps |-> 3, type |-> "", x |-> 0]
Float(x) == [t |-> "float", comps |-> 1, type |-> "", x |-> x]
OtherValue == [t |-> "other", comps |-> 0, type |-> "", x |-> 0]

\* the format makeTexture hands to usdFormatToMsneFormat for an image
TextureFormat(value, swizzle, colorSpace, dst) ==
    LET format ==
            IF swizzle \in {"r", "g", "b"} THEN HioGetFormat(1, value.type, FALSE)
            ELSE IF value.comps = 3 /\ dst = "normal"
                 THEN HioGetFormat(2, value.type, FALSE)
                 ELSE HioGetFormat(value.comps, value.type, FALSE)
    IN HioGetFormat(format.comps, format.type, colorSpace = "sRGB")

\* the texture-creation call makeTexture makes (op), or the error it reports
makeTexture(value, swizzle, colorSpace, dst) ==
    IF value.t = "asset"
    THEN LET msne_format ==
                 usdFormatToMsneFormat(TextureFormat(value, swizzle, colorSpace, dst))
         IN IF msne_format = "none"
            THEN [ok |-> FALSE, op |-> "", fmt |-> "", errors |-> {"UnknownFormat"}]
            ELSE [ok |-> TRUE, op |-> "CreateRawTexture", fmt |-> msne_format,
                  errors |-> {}]
    ELSE IF value.t = "vec3"
    THEN IF dst = "normal"
         THEN [ok |-> TRUE, op |-> "CreateSolidTexture2", fmt |-> "f32x2", errors |-> {}]
         ELSE [ok |-> TRUE, op |-> "CreateSolidTexture3", fmt |-> "f32x3", errors |-> {}]
    ELSE IF value.t = "float"
    THEN [ok |-> TRUE, op |-> "CreateSolidTexture1", fmt |-> "f32x1", errors |-> {}]
    ELSE [ok |-> FALSE, op |-> "", fmt |-> "", errors |-> {"UnknownValueType"}]

\* ------------------------------------------------------ material: resolver

\* the inputs UsdPreviewSurface declares, in the registry's order (those the
\* bridge tells apart, and one it has no slot for)
InputNames ==
    <<"diffuseColor", "emissiveColor", "useSpecularWorkflow", "metallic",
      "roughness", "opacity", "ior", "normal">>
InputNameSet == {InputNames[i] : i \in 1..Len(InputNames)}
\* the inputs SetTextureBasedOnValueAndName makes a texture for
TextureInputs == InputNameSet \ {"ior", "useSpecularWorkflow"}

\* the registry's default value of an input
DefaultValue(name) ==
    IF name \in {"diffuseColor", "emissiveColor", "normal"} THEN Vec3
    ELSE IF name = "ior" THEN Float(DefaultIor)
    ELSE IF name = "useSpecularWorkflow" THEN OtherValue
    ELSE Float(0)

\* where a node takes an input from: an upstream connection (to a node of a
\* role, read through an output with a swizzle), an inline parameter, neither
Conn(role, swizzle, colorSpace, value) ==
    [kind |-> "conn", role |-> role, swizzle |-> swizzle,
     colorSpace |-> colorSpace, value |-> value]
Param(value) ==
    [kind |-> "param", role |-> "", swizzle |-> "", colorSpace |-> "raw",
     value |-> value]
Unset ==
    [kind |-> "unset", role |-> "", swizzle |-> "", colorSpace |-> "raw",
     value |-> OtherValue]

\* VtValue::Get<float>: the value's float, the default float otherwise
GetFloat(value) == IF value.t = "float" THEN value.x ELSE 0

\* the material slot an input's texture is bound to, and the call binding it
SlotOf(name) ==
    IF name = "diffuseColor" THEN <<"color", "SetMaterialColor">>
    ELSE IF name = "emissiveColor" THEN <<"emissive", "SetMaterialEmissive">>
    ELSE IF name = "normal" THEN <<"normal", "SetMaterialNormal">>
    ELSE IF name = "roughness" THEN <<"roughness", "SetMaterialRoughness">>
    ELSE IF name = "metallic" THEN <<"metalness", "SetMaterialMetalness">>
    ELSE <<"none", "">>

\* variant: an input that fails leaves its slot without a texture
SetTextureBasedOnValueAndName_Unbinds(mats, next, handle, name, value, swizzle, colorSpace) ==
    IF name = "ior"
    THEN [mats |-> [mats EXCEPT ![handle].ior = GetFloat(value)], next |-> next,
          calls |-> <<<<"SetMaterialIOR", handle, GetFloat(value)>>>>,
          errors |-> {}, ok |-> TRUE]
    ELSE IF name = "useSpecularWorkflow"
    THEN [mats |-> mats, next |-> next, calls |-> <<>>, errors |-> {}, ok |-> TRUE]
    ELSE LET maybe_texture == makeTexture(value, swizzle, colorSpace, name)
             texture == next
             slot == SlotOf(name)
         IN IF ~maybe_texture.ok
            THEN [mats |-> IF slot[1] = "none" THEN mats
                           ELSE [mats EXCEPT ![handle][slot[1]] = 0],
                  next |-> next, calls |-> <<>>,
                  errors |-> maybe_texture.errors \cup {"ParseTexture"}, ok |-> FALSE]
            ELSE [mats |-> IF slot[1] = "none" THEN mats
                           ELSE [mats EXCEPT ![handle][slot[1]] = texture],
                  next |-> next + 1,
                  calls |-> <<<<maybe_texture.op, texture, maybe_texture.fmt>>>>
                            \o (IF slot[1] = "none" THEN <<>>
                                ELSE <<<<slot[2], handle, texture>>>>),
                  errors |-> {}, ok |-> TRUE]

\* SetTextureBasedOnValueAndName on the renderer's materials mats with next
\* the next texture handle: the materials and the next handle after it, the
\* calls it makes, the errors it reports
SetTextureBasedOnValueAndName(mats, next, handle, name, value, swizzle, colorSpace) ==
    IF name = "ior"
    THEN [mats |-> [mats EXCEPT ![handle].ior = GetFloat(value)], next |-> next,
          calls |-> <<<<"SetMaterialIOR", handle, GetFloat(value)>>>>,
          errors |-> {}, ok |-> TRUE]
    ELSE IF name = "useSpecularWorkflow"
    THEN [mats |-> mats, next |-> next, calls |-> <<>>, errors |-> {}, ok |-> TRUE]
    ELSE LET maybe_texture == makeTexture(value, swizzle, colorSpace, name)
             texture == next
             slot == SlotOf(name)
         IN IF ~maybe_texture.ok
            THEN [mats |-> mats, next |-> next, calls |-> <<>>,
                  errors |-> maybe_texture.errors \cup {"ParseTexture"}, ok |-> FALSE]
            ELSE [mats |-> IF slot[1] = "none" THEN mats
                           ELSE [mats EXCEPT ![handle][slot[1]] = texture],
                  next |-> next + 1,
                  calls |-> <<<<maybe_texture.op, texture, maybe_texture.fmt>>>>
                            \o (IF slot[1] = "none" THEN <<>>
                                ELSE <<<<slot[2], handle, texture>>>>),
                  errors |-> {}, ok |-> TRUE]

\* variant: the inline parameter looked at before the connection
ResolveInput_ParamFirst(mats, next, handle, node, name) ==
    LET con == node.inputConnections[name]
        param == node.parameters[name]
    IN
    IF param.kind = "param"
    THEN SetTextureBasedOnValueAndName(mats, next, handle, name, param.value, "", "raw")
    ELSE IF con.kind = "conn"
    THEN IF con.role = "texture"
         THEN SetTextureBasedOnValueAndName(mats, next, handle, name, con.value,
                                            con.swizzle, con.colorSpace)
         ELSE [mats |-> mats, next |-> next, calls |-> <<>>,
               errors |-> {"UnknownConnection"}, ok |-> FALSE]
    ELSE SetTextureBasedOnValueAndName(mats, next, handle, name, DefaultValue(name),
                                       "", "raw")

\* one iteration of the loop over the declared inputs: the input's
\* connection if the node has one, else its parameter if it has one, else
\* the registry's default
ResolveInput(mats, next, handle, node, name) ==
    LET con == node.inputConnections[name]
        param == node.parameters[name]
    IN
    IF con.kind = "conn"
    THEN IF con.role = "texture"
         THEN SetTextureBasedOnValueAndName(mats, next, handle, name, con.value,
                                            con.swizzle, con.colorSpace)
         ELSE [mats |-> mats, next |-> next, calls |-> <<>>,
               errors |-> {"UnknownConnection"}, ok |-> FALSE]
    ELSE IF param.kind = "param"
    THEN SetTextureBasedOnValueAndName(mats, next, handle, name, param.value, "", "raw")
    ELSE SetTextureBasedOnValueAndName(mats, next, handle, name, DefaultValue(name),
                                       "", "raw")

\* ------------------------------------------------------------ material Sync
MaterialFlags == {"Params", "Resource"}

\* what GetMaterialResource returns: a network map or not; in a map, whether
\* the "surface" terminal exists, the type of the node it names, and that
\* node's inputConnections and parameters, by input name
NetworkOf(surface, nodeTypeId, inputConnections, parameters) ==
    [isMap |-> TRUE, surface |-> surface, nodeTypeId |-> nodeTypeId,
     inputConnections |-> inputConnections, parameters |-> parameters]
\* a network whose node has, for each input, the one source inputs gives it
Network(surface, nodeTypeId, inputs) ==
    NetworkOf(surface, nodeTypeId,
              [n \in DOMAIN inputs |-> IF inputs[n].kind = "conn" THEN inputs[n] ELSE Unset],
              [n \in DOMAIN inputs |-> IF inputs[n].kind = "param" THEN inputs[n] ELSE Unset])
AllUnset == [n \in InputNameSet |-> Unset]
NoNetwork ==
    [isMap |-> FALSE, surface |-> FALSE, nodeTypeId |-> "",
     inputConnections |-> AllUnset, parameters |-> AllUnset]

\* the sources an input is given in the snapshots
Sources ==
    {Param(Float(13)), Param(Vec3), Param(OtherValue),
     Conn("other", "", "raw", OtherValue)}
    \cup {Conn("texture", sw, cs, Asset(3, ty)) :
            sw \in {"", "r"}, cs \in {"raw", "sRGB"}, ty \in {"UNorm8", "Float32"}}
    \cup {Conn("texture", "", "raw", Asset(1, "UNorm8"))}

\* the snapshots material Sync is called with
Resources ==
    {NoNetwork,
     Network(FALSE, "UsdPreviewSurface", AllUnset),
     Network(TRUE, "OtherSurface", AllUnset),
     Network(TRUE, "UsdPreviewSurface", AllUnset),
     \* a texture on one input, a parameter on another, neither on the rest
     Network(TRUE, "UsdPreviewSurface",
             [AllUnset EXCEPT !["diffuseColor"] = Conn("texture", "", "sRGB", Asset(3, "UNorm8")),
                              !["roughness"] = Param(Float(13))])}
    \cup {Network(TRUE, "UsdPreviewSurface", [n \in InputNameSet |-> src]) :
            src \in Sources}
    \cup {Network(TRUE, "UsdPreviewSurface",
                  [AllUnset EXCEPT ![n] = Conn("other", "", "raw", OtherValue)]) :
            n \in InputNameSet}
    \* one input with an image of no renderer format, one with a value of no
    \* supported type, the defaults on the rest
    \cup {Network(TRUE, "UsdPreviewSurface",
                  [AllUnset EXCEPT !["diffuseColor"] = Conn("texture", "", "raw", Asset(3, "Float32")),
                                   !["metallic"] = Param(OtherValue)])}
    \* every input with a connection and a parameter at once
    \cup {NetworkOf(TRUE, "UsdPreviewSurface",
                    [n \in InputNameSet |-> Conn("texture", "", "raw", Asset(4, "UNorm8"))],
                    [n \in InputNameSet |-> Param(Float(13))]),
          NetworkOf(TRUE, "UsdPreviewSurface",
                    [n \in InputNameSet |-> Conn("other", "", "raw", OtherValue)],
                    [n \in InputNameSet |-> Param(Vec3)])}

MaterialReturn ==
    /\ pc' = "idle"
    /\ network' = NoNetwork
    /\ inputIdx' = 0

\* variant: any terminal node taken for a UsdPreviewSurface
SupportedNode_Any(nodeTypeId) == TRUE

\* the one shading-model type the resolver parses
SupportedNode(nodeTypeId) == nodeTypeId = "UsdPreviewSurface"

\* entry, up to the loop over the declared inputs
MaterialSyncBegin(m, d, resource) ==
    /\ entity = "material"
    /\ UNCHANGED fnVars
    /\ pc = "idle"
    /\ ~crashed
    /\ matHandle[m] # 0
    /\ "Params" \in d =>
           nextTexture + Cardinality(TextureInputs) <=
               NumDefaultTextures + MaxMaterialSyncs * Cardinality(TextureInputs) + 1
    /\ self' = m
    /\ lastOp' = "MaterialSync"
    /\ dirtyIn' = d
    /\ dirtyBits' = d
    /\ calls' = <<>>
    /\ UNCHANGED <<entity, meshVars, localVars, matHandle, rendererVars,
                   matRendererVars, crashed, fresh>>
    /\ IF "Params" \notin d
       THEN /\ errors' = LeftoverReport(d)
            /\ MaterialReturn
       ELSE IF ~resource.isMap
       THEN /\ errors' = {"UnknownResource"}
            /\ MaterialReturn
       ELSE IF ~resource.surface
       THEN /\ errors' = {"NoSurface"}
            /\ MaterialReturn
       ELSE IF ~SupportedNode(resource.nodeTypeId)
       THEN /\ errors' = {"UnknownNode"}
            /\ MaterialReturn
       ELSE /\ errors' = {}
            /\ network' = resource
            /\ inputIdx' = 1
            /\ pc' = "input"

\* variant: the inputs bound on the render context's default material
Handle_Default == DefaultMaterial

\* the _handle of the record being synced
Handle == matHandle[self]

\* one iteration of the loop over the declared inputs
MaterialSyncInput ==
    /\ pc = "input"
    /\ UNCHANGED fnVars
    /\ inputIdx <= Len(InputNames)
    /\ LET r == ResolveInput(rMaterials, nextTexture, Handle, network,
                             InputNames[inputIdx])
       IN /\ rMaterials' = r.mats
          /\ nextTexture' = r.next
          /\ calls' = calls \o r.calls
          /\ errors' = errors \cup r.errors
    /\ inputIdx' = inputIdx + 1
    /\ UNCHANGED <<entity, pc, meshVars, dirtyBits, localVars, matHandle, self,
                   network, rendererVars, lastOp, dirtyIn, crashed, fresh>>

\* after the loop: the flag cleared, the leftover report, return
MaterialSyncEnd ==
    /\ pc = "input"
    /\ UNCHANGED fnVars
    /\ inputIdx > Len(InputNames)
    /\ dirtyBits' = dirtyBits \ {"Params"}
    /\ errors' = errors \cup LeftoverReport(dirtyBits \ {"Params"})
    /\ MaterialReturn
    /\ UNCHANGED <<entity, meshVars, localVars, matHandle, self, rendererVars,
                   matRendererVars, lastOp, dirtyIn, calls, crashed, fresh>>

\* ---------------------------------------------------------------------- spec
\* no function applied on its own
NoArgs == [f |-> "none"]
NoRet == [done |-> FALSE]

\* the records and the renderer after construction
InitRecords ==
    /\ pc = "idle"
    /\ self = 0
    /\ network = NoNetwork
    /\ inputIdx = 0
    /\ rMaterials = [h \in {DefaultMaterial} |-> InitialMaterial]
    /\ nextTexture = NumDefaultTextures + 1
    /\ mesh = 0
    /\ material = DefaultMaterial
    /\ transform = Identity
    /\ instancesTransforms = <<>>
    /\ instances = <<>>
    /\ visible = TRUE
    /\ instancerId = 0
    /\ finalized = FALSE
    /\ dirtyBits = {}
    /\ mesh_changed = FALSE
    /\ old_visibility = TRUE
    /\ materialId = 0
    /\ material_changed = FALSE
    /\ transform_changed = FALSE
    /\ syncInstancerId = 0
    /\ old_len = 0
    /\ matHandle = [m \in MaterialIds |-> 0]
    /\ rInstances = <<>>
    /\ rDestroyed = [h \in 1..MaxInstanceHandles |-> 0]
    /\ nextInstance = 1
    /\ nextMesh = 1
    /\ nextMaterial = DefaultMaterial + 1
    /\ lastOp = "none"
    /\ dirtyIn = {}
    /\ calls = <<>>
    /\ errors = {}
    /\ crashed = FALSE
    /\ fresh = TRUE

Init ==
    /\ entity \in {"mesh", "material"}
    /\ InitRecords
    /\ args = NoArgs
    /\ ret = NoRet

DoMeshSyncPoints ==
    \E d \in DirtySets :
    \E computed \in (IF IsPointsDirty(d) THEN PointArrays ELSE {<<>>}) :
    \E authored \in (IF IsPointsDirty(d) THEN PointArrays ELSE {<<>>}) :
        MeshSyncPoints(d, computed, authored)

DoMeshSyncVisibility ==
    \E hostVisible \in (IF "Visibility" \in dirtyBits THEN BOOLEAN ELSE {TRUE}) :
        MeshSyncVisibility(hostVisible)

DoMeshSyncMaterial ==
    \E hostMaterialId \in (IF "MaterialId" \in dirtyBits THEN {0} \cup MaterialIds ELSE {0}) :
        MeshSyncMaterial(hostMaterialId)

DoMeshSyncTransform ==
    \E hostTransform \in (IF "Transform" \in dirtyBits THEN Xforms ELSE {Identity}) :
        MeshSyncTransform(hostTransform)

DoMeshSyncInstancer ==
    \E hostInstancerId \in (IF "Instancer" \in dirtyBits THEN {0, 1} ELSE {0}) :
    \E instanceTransforms \in (IF "Instancer" \in dirtyBits /\ instancerId # 0
                               THEN InstancerResults ELSE {<<>>}) :
        MeshSyncInstancer(hostInstancerId, instanceTransforms)

DoCreateMaterial == \E m \in Realizable : CreateMaterial(m)

DoMaterialSyncBegin ==
    \E m \in Realizable :
    \E d \in SUBSET MaterialFlags :
    \E resource \in (IF "Params" \in d THEN Resources ELSE {NoNetwork}) :
        MaterialSyncBegin(m, d, resource)

Next ==
    \/ DoMeshSyncPoints
    \/ DoMeshSyncVisibility
    \/ DoMeshSyncMaterial
    \/ DoMeshSyncTransform
    \/ DoMeshSyncInstancer
    \/ MeshSyncInstances
    \/ Finalize
    \/ DoCreateMaterial
    \/ DoMaterialSyncBegin
    \/ MaterialSyncInput
    \/ MaterialSyncEnd

Spec == Init /\ [][Next]_vars

\* ============================================ functions applied on their own

\* pixel buffers: bytes the image reader wrote (ImageBytes) and bytes it did
\* not (Unwritten: make_unique value-initialises the buffer)
ImageBytes == {1, 2}
Unwritten == 0
MaxPixels == 3
\* size_t wraps at a power of two far beyond any buffer; only that
\* 0 - 1 is its largest value matters
SizeMod == 65536

RECURSIVE BytesOf(_)
\* all sequences of n image bytes
BytesOf(n) ==
    IF n = 0 THEN {<<>>}
    ELSE {Append(b, x) : b \in BytesOf(n - 1), x \in ImageBytes}

\* the size of the buffer makeTexture allocates for an image of imageSize bytes
BufferSize(imageSize) ==
    IF imageSize % 3 = 0 THEN (imageSize \div 3) * 4 ELSE imageSize

\* the buffer after image->Read
ReadImage(bytes) ==
    [k \in 1..BufferSize(Len(bytes)) |-> IF k <= Len(bytes) THEN bytes[k] ELSE Unwritten]

\* data[to] = data[from], indices from 0; wild: an index past the buffer
CopyByte(b, to, from) ==
    IF to >= Len(b.data) \/ from >= Len(b.data)
    THEN [data |-> b.data, wild |-> TRUE]
    ELSE [data |-> [b.data EXCEPT ![to + 1] = b.data[from + 1]], wild |-> b.wild]

RECURSIVE rgbToRgbaPixel(_, _, _, _, _)
\* the inner loop of rgbToRgba for pixel i, from byte j on
rgbToRgbaPixel(b, i, j, src_bytes_per_pixel, dst_bytes_per_pixel) ==
    IF j < src_bytes_per_pixel /\ ~b.wild
    THEN rgbToRgbaPixel(CopyByte(b, dst_bytes_per_pixel * i + j, src_bytes_per_pixel * i + j),
                        i, j + 1, src_bytes_per_pixel, dst_bytes_per_pixel)
    ELSE b

RECURSIVE rgbToRgbaLoop(_, _, _, _)
\* the outer loop of rgbToRgba, at its test i-- > 0
rgbToRgbaLoop(b, i, src_bytes_per_pixel, dst_bytes_per_pixel) ==
    IF i > 0 /\ ~b.wild
    THEN rgbToRgbaLoop(rgbToRgbaPixel(b, i - 1, 0, src_bytes_per_pixel, dst_bytes_per_pixel),
                       i - 1, src_bytes_per_pixel, dst_bytes_per_pixel)
    ELSE b

rgbToRgba(data, pixel_count, src_bytes_per_pixel, dst_bytes_per_pixel) ==
    rgbToRgbaLoop([data |-> data, wild |-> FALSE], (pixel_count - 1) % SizeMod,
                  src_bytes_per_pixel, dst_bytes_per_pixel)

\* variant: the channels counted from one
ChannelOf_FromOne(swizzle) == IF swizzle = "r" THEN 1 ELSE IF swizzle = "g" THEN 2 ELSE 3

\* the channel a swizzle names
ChannelOf(swizzle) == IF swizzle = "r" THEN 0 ELSE IF swizzle = "g" THEN 1 ELSE 2

RECURSIVE ExtractChannelFrom(_, _, _, _, _, _, _)
\* the swizzle loops of makeTexture, at pixel i and byte j of the channel
ExtractChannelFrom(b, i, j, pixels, bytesPerPixel, size, src_start) ==
    IF i >= pixels \/ b.wild THEN b
    ELSE IF j >= src_start + size
    THEN ExtractChannelFrom(b, i + 1, src_start, pixels, bytesPerPixel, size, src_start)
    ELSE ExtractChannelFrom(CopyByte(b, i * size + j - src_start, i * bytesPerPixel + j),
                            i, j + 1, pixels, bytesPerPixel, size, src_start)

\* makeTexture's extraction of one channel, in place
ExtractChannel(data, pixels, comps, size, swizzle) ==
    ExtractChannelFrom([data |-> data, wild |-> FALSE], 0, ChannelOf(swizzle) * size,
                       pixels, comps * size, size, ChannelOf(swizzle) * size)

\* HioGetDataSizeOfType: the bytes of one component
DataSizeOfType(type) ==
    IF type = "UNorm8" THEN 1 ELSE IF type = "Float16" THEN 2 ELSE 4

\* the bytes from one pixel to the next in the buffer makeTexture hands to
\* the renderer, after the swizzle, the normal re-encoding or the padding
LaidOutStride(comps, size, swizzle, dst) ==
    IF swizzle \in {"r", "g", "b"} THEN size
    ELSE IF comps = 3
    THEN IF dst = "normal" THEN size * 2 ELSE ((comps * size) \div 3) * 4
    ELSE comps * size

\* the asset images makeTexture is applied to, with every swizzle (one the
\* code does not know included), colour space and destination
MakeTextureArgs ==
    {[f |-> "makeTexture", value |-> Asset(c, ty), swizzle |-> sw,
      colorSpace |-> cs, dst |-> dst] :
        c \in 1..4, ty \in {"UNorm8", "Float16", "Float32"},
        sw \in {"", "r", "g", "b", "a"}, cs \in {"raw", "sRGB"}, dst \in TextureInputs}

\* makeTexture on an asset: the renderer format or the failure, and the
\* channels per pixel of the buffer it has laid out
ApplyMakeTexture ==
    /\ args.f = "makeTexture"
    /\ ~ret.done
    /\ LET texture == makeTexture(args.value, args.swizzle, args.colorSpace, args.dst)
           size == DataSizeOfType(args.value.type)
       IN ret' = [done |-> TRUE, ok |-> texture.ok, fmt |-> texture.fmt,
                  errors |-> texture.errors,
                  channels |-> LaidOutStride(args.value.comps, size, args.swizzle,
                                             args.dst) \div size]
    /\ UNCHANGED <<recordVars, args>>

\* ---- mesh unindexing

RECURSIVE FanTriangles(_, _, _)
\* HdMeshUtil's triangulation of the faces from face f on, offset face
\* vertices before it: per triangle its three vertex indices (v) and the
\* positions of its corners among the face vertices (fv)
FanTriangles(faces, f, offset) ==
    IF f > Len(faces) THEN <<>>
    ELSE [k \in 1..(Len(faces[f]) - 2) |->
             [v |-> <<faces[f][1], faces[f][k + 1], faces[f][k + 2]>>,
              fv |-> <<offset + 1, offset + k + 1, offset + k + 2>>]]
         \o FanTriangles(faces, f + 1, offset + Len(faces[f]))

\* meshUtil.ComputeTriangleIndices
ComputeTriangleIndices(faces) ==
    LET tris == FanTriangles(faces, 1, 0) IN [t \in 1..Len(tris) |-> tris[t].v]

\* meshUtil.ComputeTriangulatedFaceVaryingPrimvar
ComputeTriangulatedFaceVaryingPrimvar(faces, array) ==
    LET tris == FanTriangles(faces, 1, 0) IN
    [k \in 1..(3 * Len(tris)) |-> array[tris[((k - 1) \div 3) + 1].fv[((k - 1) % 3) + 1]]]

\* a primvar as the scene delegate gives it: whether the value holds an
\* array of the element type asked for, the array, and the interpolation
\* FindPrimvarInterpolation finds for the name ("none": no such primvar)
Primvar(holds, array, interpolation) ==
    [holds |-> holds, array |-> array, interpolation |-> interpolation]
NoPrimvar == Primvar(FALSE, <<>>, "none")

\* variant: the third corner of each triangle left out
ComputePrimvar_TwoCorners(faces, indices, boxedPrimvar) ==
    IF ~boxedPrimvar.holds \/ boxedPrimvar.interpolation = "none"
    THEN [primvar |-> <<>>, errors |-> {}]
    ELSE IF boxedPrimvar.interpolation = "faceVarying"
    THEN [primvar |-> ComputeTriangulatedFaceVaryingPrimvar(faces, boxedPrimvar.array),
          errors |-> {}]
    ELSE IF boxedPrimvar.interpolation = "vertex"
    THEN [primvar |-> [k \in 1..(2 * Len(indices)) |->
                          boxedPrimvar.array[indices[((k - 1) \div 2) + 1][((k - 1) % 2) + 1]]],
          errors |-> {}]
    ELSE [primvar |-> <<>>, errors |-> {"UnknownInterpolation"}]

\* HdMoonshineMesh::ComputePrimvar
ComputePrimvar(faces, indices, boxedPrimvar) ==
    IF ~boxedPrimvar.holds \/ boxedPrimvar.interpolation = "none"
    THEN [primvar |-> <<>>, errors |-> {}]
    ELSE IF boxedPrimvar.interpolation = "faceVarying"
    THEN [primvar |-> ComputeTriangulatedFaceVaryingPrimvar(faces, boxedPrimvar.array),
          errors |-> {}]
    ELSE IF boxedPrimvar.interpolation = "vertex"
    THEN [primvar |-> UnindexPoints(indices, boxedPrimvar.array), errors |-> {}]
    ELSE [primvar |-> <<>>, errors |-> {"UnknownInterpolation"}]

\* the topologies unindexing is applied to, over four points: no face, a
\* triangle, a quad, two triangles
Faces == {<<>>, <<<<1, 2, 3>>>>, <<<<1, 2, 3, 4>>>>, <<<<1, 2, 3>>, <<3, 2, 4>>>>}
MeshPoints == <<10, 20, 30, 40>>

RECURSIVE FaceVertexCount(_)
FaceVertexCount(faces) ==
    IF faces = <<>> THEN 0 ELSE Len(Head(faces)) + FaceVertexCount(Tail(faces))

\* the primvars a mesh of these faces may carry under one name: none, a
\* value of another type, one value per point (vertex), one per face vertex
\* (faceVarying), one per face (uniform), one for the mesh (constant)
Primvars(faces, base) ==
    {NoPrimvar,
     Primvar(FALSE, <<>>, "vertex"),
     Primvar(TRUE, [i \in 1..Len(MeshPoints) |-> base + i], "vertex"),
     Primvar(TRUE, [i \in 1..FaceVertexCount(faces) |-> base + i], "faceVarying"),
     Primvar(TRUE, [i \in 1..Len(faces) |-> base + i], "uniform"),
     Primvar(TRUE, <<base>>, "constant")}

UnindexArgs ==
    UNION {{[f |-> "Unindex", faces |-> fs, normals |-> n, st |-> st, st0 |-> st0] :
               n \in Primvars(fs, 100), st \in Primvars(fs, 200),
               st0 \in {NoPrimvar, Primvar(TRUE, [i \in 1..Len(MeshPoints) |-> 300 + i],
                                            "vertex")}} :
           fs \in Faces}

\* the points step of mesh Sync from the triangulation to the arrays it
\* hands to HdMoonshineCreateMesh
ApplyUnindex ==
    /\ args.f = "Unindex"
    /\ ~ret.done
    /\ LET indices == ComputeTriangleIndices(args.faces)
           texcoordName == IF args.st.interpolation # "none" THEN "st"
                           ELSE IF args.st0.interpolation # "none" THEN "st0"
                           ELSE ""
           texcoords == IF texcoordName = "st"
                        THEN ComputePrimvar(args.faces, indices, args.st)
                        ELSE IF texcoordName = "st0"
                        THEN ComputePrimvar(args.faces, indices, args.st0)
                        ELSE [primvar |-> <<>>, errors |-> {}]
           normals == ComputePrimvar(args.faces, indices, args.normals)
       IN ret' = [done |-> TRUE, indices |-> indices,
                  points |-> UnindexPoints(indices, MeshPoints),
                  normals |-> normals.primvar, texcoords |-> texcoords.primvar,
                  errors |-> normals.errors \cup texcoords.errors]
    /\ UNCHANGED <<recordVars, args>>

\* the images the buffer functions are applied to: pixel_count pixels of
\* comps one-byte components
Images(comps) ==
    UNION {{[pixel_count |-> p, comps |-> comps, bytes |-> bytes] :
                bytes \in BytesOf(comps * p)} : p \in 0..MaxPixels}

RgbToRgbaArgs == {[f |-> "rgbToRgba", image |-> im] : im \in Images(3)}

ExtractChannelArgs ==
    {[f |-> "ExtractChannel", image |-> im, swizzle |-> sw] :
        im \in Images(1) \cup Images(3), sw \in {"r", "g", "b"}}

\* what a function returns when it stayed inside its buffer, and what the
\* process may do when it did not: go on with the buffer it has, or die
Outcomes(b, comps) ==
    {[done |-> TRUE, data |-> b.data, comps |-> comps, wild |-> b.wild, died |-> x] :
        x \in IF b.wild THEN BOOLEAN ELSE {FALSE}}

\* rgbToRgba as makeTexture calls it on a 3-component image
ApplyRgbToRgba ==
    /\ args.f = "rgbToRgba"
    /\ ~ret.done
    /\ LET bytesPerPixel == args.image.comps IN
       ret' \in Outcomes(rgbToRgba(ReadImage(args.image.bytes), args.image.pixel_count,
                                   bytesPerPixel, (bytesPerPixel \div 3) * 4), 4)
    /\ UNCHANGED <<recordVars, args>>

\* the swizzle branch of makeTexture: the channel extracted, the format
\* made one of a single component
ApplyExtractChannel ==
    /\ args.f = "ExtractChannel"
    /\ ~ret.done
    /\ ret' \in Outcomes(ExtractChannel(ReadImage(args.image.bytes), args.image.pixel_count,
                                       args.image.comps, 1, args.swizzle), 1)
    /\ UNCHANGED <<recordVars, args>>

\* ===================================================================== claims

\* a mesh Sync has returned (and the process lives)
MeshSyncReturned == entity = "mesh" /\ pc = "idle" /\ lastOp = "MeshSync" /\ ~crashed

\* C1 (as stated): whenever a mesh Sync has returned, the list of instance
\* handles and the list of instance transforms have the same length.
C1_ListsSameLength ==
    MeshSyncReturned => Len(instances) = Len(instancesTransforms)

\* C2 (as stated): when the instancer was dirty in a call and the number of
\* instance transforms differs from the number before the call, the final
\* step destroys every existing instance handle and creates one fresh handle
\* per transform.
C2_CountChangeRebuilds ==
    [][ (pc = "instances" /\ "Instancer" \in dirtyIn
            /\ old_len # Len(instancesTransforms))
        => /\ calls' = calls \o CallsOf("DestroyInstance", instances)
                             \o CallsOf("CreateInstance", instances')
           /\ Len(instances') = Len(instancesTransforms) ]_vars

\* C3 (as stated): when only the transform and/or the instancer were dirty
\* and the number of instance transforms did not change, the call issues
\* exactly one set-transform call for each existing instance handle, in
\* order, and leaves the handles as they were.
C3_OneSetTransformPerHandle ==
    [][ (pc = "instances" /\ dirtyIn # {}
            /\ dirtyIn \subseteq {"Transform", "Instancer"}
            /\ old_len = Len(instancesTransforms))
        => /\ instances' = instances
           /\ calls' = CallsOf("SetInstanceTransform", instances) ]_vars

\* the state a mesh Sync is in before its last step, for a record that was
\* as constructed when the call began, with points and without material binding
FirstSyncBeforeInstances ==
    /\ pc = "instances"
    /\ fresh
    /\ "Points" \in dirtyIn
    /\ materialId = 0

C5_VisibilityOnly ==
    [][ (pc = "instances" /\ dirtyIn = {"Visibility"})
        => /\ calls' = IF old_visibility # visible
                       THEN CallsOf("SetInstanceVisibility", instances)
                       ELSE <<>>
           /\ instances' = instances ]_vars

C5_Witness ==
    /\ MeshSyncReturned
    /\ dirtyIn = {"Visibility"}
    /\ Len(instances) >= 2
    /\ calls = CallsOf("SetInstanceVisibility", instances)

\* C6 (as stated): when the material binding is dirty the mesh takes the
\* default material if it has no binding or if the referenced material is
\* not realised, and that material's handle otherwise; the flag is cleared.
C6_UnrealisedBindsDefault ==
    [][ (pc = "material" /\ "MaterialId" \in dirtyBits)
        => /\ material' = IF materialId' = 0 \/ matHandle[materialId'] = 0
                          THEN DefaultMaterial
                          ELSE matHandle[materialId']
           /\ "MaterialId" \notin dirtyBits' ]_vars

\* a Sync of a mesh or a material has returned
SyncReturned ==
    pc = "idle" /\ lastOp \in {"MeshSync", "MaterialSync"} /\ ~crashed

\* the errors after which Sync returns at once
EarlyReturnErrors == {"EmptyMesh", "UnknownResource", "NoSurface", "UnknownNode"}

\* C7 (as stated): every Sync of a mesh or a material that returns with a
\* dirty flag still set has reported the leftover dirty bits.
C7_LeftoverAlwaysReported ==
    (SyncReturned /\ dirtyBits # {}) => "LeftoverDirty" \in errors

\* C7 (amended): a Sync that runs to its end reports leftover dirty bits
\* exactly when a flag is still set; a Sync that returns early (missing
\* points, unknown resource, no surface terminal, unsupported terminal node)
\* reports only that error and leaves every flag it was called with.
C7_LeftoverReportedAtEnd ==
    SyncReturned =>
        IF errors \cap EarlyReturnErrors # {}
        THEN /\ "LeftoverDirty" \notin errors
             /\ Cardinality(errors) = 1
             /\ dirtyBits = dirtyIn
             /\ dirtyBits # {}
        ELSE ("LeftoverDirty" \in errors) <=> (dirtyBits # {})

C7_Witness ==
    /\ SyncReturned
    /\ lastOp = "MaterialSync"
    /\ dirtyIn = MaterialFlags
    /\ dirtyBits = {"Resource"}
    /\ "LeftoverDirty" \in errors

\* C8: a mesh Sync with the points flag dirty whose computed and authored
\* points are both empty keeps the geometry handle, issues no renderer call
\* (no mesh creation, no instance creation, destruction or update) and
\* reports the missing points.
C8_EmptyPointsTouchNothing ==
    [][ \A d \in DirtySets :
          ("Points" \in d /\ MeshSyncPoints(d, <<>>, <<>>))
          => /\ mesh' = mesh
             /\ nextMesh' = nextMesh
             /\ calls' = <<>>
             /\ instances' = instances
             /\ rInstances' = rInstances
             /\ rDestroyed' = rDestroyed
             /\ nextInstance' = nextInstance
             /\ errors' = {"EmptyMesh"}
             /\ pc' = "idle" ]_vars

C8_Witness ==
    /\ MeshSyncReturned
    /\ "EmptyMesh" \in errors
    /\ mesh # 0
    /\ Len(instances) >= 1
    /\ calls = <<>>

\* C9 (as stated): when the points step fails for missing data while other
\* fields are dirty, the other fields are still updated and their flags
\* cleared in that call.
C9_OtherFieldsStillUpdated ==
    (MeshSyncReturned /\ "EmptyMesh" \in errors)
        => dirtyBits \cap {"Visibility", "MaterialId", "Transform", "Instancer"} = {}

\* C9 (amended): when the points step fails for missing data the call
\* returns at once: every field of the record (geometry, visibility,
\* material, transform, instancer, instance transforms, instance handles)
\* keeps its value and every flag the call was given stays set.
C9_FailureLeavesRecord ==
    [][ \A d \in DirtySets :
          ("Points" \in d /\ MeshSyncPoints(d, <<>>, <<>>))
          => /\ UNCHANGED meshVars
             /\ dirtyBits' = d
             /\ pc' = "idle" ]_vars

C9_Witness ==
    /\ MeshSyncReturned
    /\ "EmptyMesh" \in errors
    /\ {"Visibility", "MaterialId", "Transform", "Instancer"} \subseteq dirtyBits
    /\ mesh # 0
    /\ material # DefaultMaterial

\* the renderer calls that bind a slot or set the ior of a material
MaterialSetOps ==
    {"SetMaterialColor", "SetMaterialEmissive", "SetMaterialNormal",
     "SetMaterialRoughness", "SetMaterialMetalness", "SetMaterialIOR"}

\* what holds of the calls of a material Sync, during and after it
MaterialSyncCalls ==
    lastOp = "MaterialSync" =>
        \A i \in 1..Len(calls) :
            /\ calls[i][1] # "CreateMaterial"
            /\ calls[i][1] \in MaterialSetOps => calls[i][2] = matHandle[self]

\* C10: a material's handle, assigned by its constructor, is never changed
\* afterwards; a material Sync issues no material-creating call, and each of
\* its slot-binding and ior calls is on the handle of the synced material.
C10_HandleAssignedOnce ==
    [][ /\ \A m \in MaterialIds :
              matHandle[m] # 0 => matHandle'[m] = matHandle[m]
        /\ lastOp' = "MaterialSync" => nextMaterial' = nextMaterial
        /\ MaterialSyncCalls' ]_vars

C10_Witness ==
    /\ SyncReturned
    /\ lastOp = "MaterialSync"
    /\ errors = {}
    /\ dirtyBits = {}
    /\ nextTexture > NumDefaultTextures + Cardinality(TextureInputs) + 1
    /\ \E i \in 1..Len(calls) : calls[i] = <<"SetMaterialIOR", matHandle[self], DefaultIor>>

\* the renderer calls that produce a texture
TextureOps ==
    {"CreateRawTexture", "CreateSolidTexture1", "CreateSolidTexture2",
     "CreateSolidTexture3"}

NumTextureCalls(cs) == Cardinality({i \in 1..Len(cs) : cs[i][1] \in TextureOps})

\* a step of the loop over the declared inputs is about to run
AtInput == pc = "input" /\ inputIdx <= Len(InputNames)

\* the source the chain connection -> parameter -> default gives an input
ChainSource(node, name) ==
    IF node.inputConnections[name].kind = "conn" THEN node.inputConnections[name]
    ELSE IF node.parameters[name].kind = "param" THEN node.parameters[name]
    ELSE Param(DefaultValue(name))

\* whether a source yields a texture for the input
Usable(src, name) ==
    /\ src.kind = "conn" => src.role = "texture"
    /\ makeTexture(src.value, src.swizzle, src.colorSpace, name).ok

\* C11 (as stated): for every input the shading-model type declares, material
\* Sync invokes exactly one texture-producing call.
C11_OneTextureCallPerInput ==
    [][ AtInput => NumTextureCalls(calls') = NumTextureCalls(calls) + 1 ]_vars

\* C11 (amended): the declared inputs are taken one by one in the type's
\* order; each takes its source by the chain connection -> parameter ->
\* default; a texture input ("ior" and "useSpecularWorkflow" are not) whose
\* source is usable gets exactly one texture-producing call, made from that
\* source; "ior" gets one set-ior call with the source's float and no
\* texture; "useSpecularWorkflow", a connection to a node that is no texture
\* and a value that cannot be made a texture get no call at all.
C11_ResolverChain ==
    [][ AtInput =>
          LET name == InputNames[inputIdx]
              src == ChainSource(network, name)
              made == SubSeq(calls', Len(calls) + 1, Len(calls'))
              texture == makeTexture(src.value, src.swizzle, src.colorSpace, name)
          IN /\ inputIdx' = inputIdx + 1
             /\ IF src.kind = "conn" /\ src.role # "texture" THEN made = <<>>
                ELSE IF name = "ior"
                THEN made = <<<<"SetMaterialIOR", matHandle[self], GetFloat(src.value)>>>>
                ELSE IF name = "useSpecularWorkflow" THEN made = <<>>
                ELSE IF Usable(src, name)
                THEN /\ NumTextureCalls(made) = 1
                     /\ made[1] = <<texture.op, nextTexture, texture.fmt>>
                ELSE made = <<>> ]_vars

C11_Witness ==
    /\ pc = "input"
    /\ inputIdx = Len(InputNames) + 1
    /\ \A n \in InputNameSet :
          network.inputConnections[n].kind = "conn" /\ network.parameters[n].kind = "param"
    /\ NumTextureCalls(calls) = Cardinality(TextureInputs)
    /\ \A i \in 1..Len(calls) : calls[i][1] # "CreateSolidTexture1"

\* an input whose source gives the resolver nothing to bind
Fails(src, name) ==
    \/ src.kind = "conn" /\ src.role # "texture"
    \/ name \notin {"ior", "useSpecularWorkflow"} /\ ~Usable(src, name)

\* C12: in material Sync a declared input that fails (image of no renderer
\* format, value of no supported type, connection to a node that is no
\* texture) reports its error and leaves the renderer's material as it was,
\* its own slot included; the loop goes on to the next input, an input that
\* does not fail and has a slot has that slot bound to the texture made for
\* it, and the call clears the params flag when the loop is over.
C12_PartialFailure ==
    [][ /\ AtInput =>
              LET name == InputNames[inputIdx]
                  src == ChainSource(network, name)
                  slot == SlotOf(name)[1]
              IN /\ pc' = "input"
                 /\ inputIdx' = inputIdx + 1
                 /\ IF Fails(src, name)
                    THEN /\ rMaterials' = rMaterials
                         /\ nextTexture' = nextTexture
                         /\ calls' = calls
                         /\ errors' \cap {"ParseTexture", "UnknownConnection"} # {}
                    ELSE slot # "none" =>
                           /\ rMaterials'[matHandle[self]][slot] = nextTexture
                           /\ nextTexture' = nextTexture + 1
        /\ (pc = "input" /\ pc' = "idle") =>
              /\ inputIdx = Len(InputNames) + 1
              /\ "Params" \notin dirtyBits' ]_vars

C12_Witness ==
    /\ SyncReturned
    /\ lastOp = "MaterialSync"
    /\ {"ParseTexture", "UnknownFormat", "UnknownValueType"} \subseteq errors
    /\ "Params" \in dirtyIn
    /\ "Params" \notin dirtyBits
    /\ rMaterials[matHandle[self]].color = InitialMaterial.color
    /\ rMaterials[matHandle[self]].metalness = InitialMaterial.metalness
    /\ rMaterials[matHandle[self]].roughness > NumDefaultTextures
    /\ rMaterials[matHandle[self]].normal > NumDefaultTextures

\* the snapshots whose "surface" terminal names a node of another type
UnsupportedTerminals ==
    {r \in Resources : r.isMap /\ r.surface /\ r.nodeTypeId # "UsdPreviewSurface"}

\* C13: a material Sync with params dirty whose "surface" terminal names a
\* node of another type than the supported one reports the unsupported node
\* and returns: no renderer call, no texture made, no slot or ior of any
\* material changed, the params flag (and every other flag given) still set.
C13_UnsupportedTerminalAbandons ==
    [][ (pc = "idle" /\ lastOp' = "MaterialSync") =>
        \A m \in MaterialIds : \A d \in SUBSET MaterialFlags :
        \A resource \in UnsupportedTerminals :
          ("Params" \in d /\ MaterialSyncBegin(m, d, resource))
          => /\ calls' = <<>>
             /\ rMaterials' = rMaterials
             /\ nextTexture' = nextTexture
             /\ errors' = {"UnknownNode"}
             /\ dirtyBits' = d
             /\ pc' = "idle" ]_vars

C13_Witness ==
    /\ SyncReturned
    /\ lastOp = "MaterialSync"
    /\ errors = {"UnknownNode"}
    /\ "Params" \in dirtyBits
    /\ calls = <<>>
    /\ nextTexture > NumDefaultTextures + 1
    /\ rMaterials[matHandle[self]] # InitialMaterial

\* --------------------------------------------- the functions on their own
FnArgs == RgbToRgbaArgs \cup ExtractChannelArgs \cup MakeTextureArgs \cup UnindexArgs

InitFn ==
    /\ entity = "function"
    /\ InitRecords
    /\ args \in FnArgs
    /\ ret = NoRet

NextFn ==
    \/ ApplyRgbToRgba
    \/ ApplyExtractChannel
    \/ ApplyMakeTexture
    \/ ApplyUnindex

SpecFn == InitFn /\ [][NextFn]_vars

\* C14 (as stated): rgbToRgba applied to P pixels of 3 components stays
\* inside its buffer (for P = 0 it touches nothing) and leaves the three
\* bytes of every original pixel i, in order, at offset 4 * i.
C14_TriplesPreserved ==
    (args.f = "rgbToRgba" /\ ret.done) =>
        /\ ~ret.wild
        /\ ~ret.died
        /\ \A i \in 0..(args.image.pixel_count - 1) : \A j \in 0..2 :
              ret.data[4 * i + j + 1] = args.image.bytes[3 * i + j + 1]

\* C16: extracting channel "r" from an image of one component per pixel
\* stays inside the buffer, leaves every byte of it as it was and the
\* component count at 1.
C16_SwizzleSingleChannel ==
    (args.f = "ExtractChannel" /\ args.image.comps = 1 /\ args.swizzle = "r" /\ ret.done) =>
        /\ ~ret.wild
        /\ ~ret.died
        /\ ret.data = ReadImage(args.image.bytes)
        /\ ret.comps = 1

C16_Witness ==
    /\ args.f = "ExtractChannel"
    /\ args.image.comps = 1
    /\ args.swizzle = "r"
    /\ args.image.pixel_count = MaxPixels
    /\ args.image.bytes[1] # args.image.bytes[2]
    /\ ret.done
    /\ ret.data = ReadImage(args.image.bytes)

\* the channels per pixel of a renderer texture format
FormatChannels(fmt) ==
    IF fmt = "u8x1" THEN 1 ELSE IF fmt = "u8x2" THEN 2
    ELSE IF fmt \in {"u8x4", "u8x4_srgb", "f16x4"} THEN 4 ELSE 0

TexcoordPrimvar == IF args.st.interpolation # "none" THEN args.st ELSE args.st0

\* the array unindexing must produce for a per-vertex primvar
Gathered(p) ==
    [k \in 1..(3 * Len(ret.indices)) |->
        p.array[ret.indices[((k - 1) \div 3) + 1][((k - 1) % 3) + 1]]]

Unindexed == args.f = "Unindex" /\ ret.done

\* C17 as stated: unindexing F triangles gives 3F positions, and 3F normals
\* and texcoords when the attribute is present on the mesh, none when it is
\* absent; a per-vertex attribute is gathered corner by corner
C17_UnindexLengths ==
    Unindexed =>
        LET F == Len(ret.indices) IN
        /\ Len(ret.points) = 3 * F
        /\ Len(ret.normals) = IF args.normals.interpolation # "none" THEN 3 * F ELSE 0
        /\ Len(ret.texcoords) = IF TexcoordPrimvar.interpolation # "none" THEN 3 * F ELSE 0
        /\ ret.points = Gathered([array |-> MeshPoints])
        /\ (args.normals.holds /\ args.normals.interpolation = "vertex")
               => ret.normals = Gathered(args.normals)
        /\ (TexcoordPrimvar.holds /\ TexcoordPrimvar.interpolation = "vertex")
               => ret.texcoords = Gathered(TexcoordPrimvar)

\* the primvars unindexing expands: a value of the element type asked for,
\* with vertex or faceVarying interpolation
Expanded(p) == p.holds /\ p.interpolation \in {"vertex", "faceVarying"}

\* a primvar unindexing rejects with a coding error
Rejected(p) == p.holds /\ p.interpolation \notin {"none", "vertex", "faceVarying"}

\* C17 amended: 3F positions; 3F normals and texcoords when the attribute
\* holds an array of the expected type with vertex or faceVarying
\* interpolation, none otherwise, with a coding error exactly when a held
\* attribute has another interpolation; a per-vertex attribute is gathered
\* corner by corner
C17_UnindexExpanded ==
    Unindexed =>
        LET F == Len(ret.indices) IN
        /\ Len(ret.points) = 3 * F
        /\ Len(ret.normals) = IF Expanded(args.normals) THEN 3 * F ELSE 0
        /\ Len(ret.texcoords) = IF Expanded(TexcoordPrimvar) THEN 3 * F ELSE 0
        /\ ret.points = Gathered([array |-> MeshPoints])
        /\ (args.normals.holds /\ args.normals.interpolation = "vertex")
               => ret.normals = Gathered(args.normals)
        /\ (TexcoordPrimvar.holds /\ TexcoordPrimvar.interpolation = "vertex")
               => ret.texcoords = Gathered(TexcoordPrimvar)
        /\ ("UnknownInterpolation" \in ret.errors)
               <=> (Rejected(args.normals) \/ Rejected(TexcoordPrimvar))

\* two triangles unindexed with per-vertex normals and a uniform texcoord
C17_Witness ==
    /\ Unindexed
    /\ Len(ret.indices) = 2
    /\ args.normals.holds /\ args.normals.interpolation = "vertex"
    /\ Len(ret.normals) = 6
    /\ TexcoordPrimvar.interpolation = "uniform"
    /\ ret.texcoords = <<>>

\* ---- C18

\* the material the binding step of a call must produce for the host's
\* binding: the default for no binding or an unrealised material, else the
\* bound material's handle
BoundMaterial(hostMaterialId) ==
    IF hostMaterialId = 0 \/ matHandle[hostMaterialId] = 0 THEN DefaultMaterial
    ELSE matHandle[hostMaterialId]

\* C18 (as stated): the steps of a mesh Sync run in the order points,
\* visibility, material binding, transform, instancer, instances, and every
\* instance a rebuild creates carries the geometry, material, transform,
\* instance-transform list and visibility that this call produced: a step
\* whose flag is dirty produces its value from the host's state in this
\* call, and the rebuild reads the record as the steps left it
C18_RebuildUsesThisCall ==
    [][ /\ \A hostMaterialId \in {0} \cup MaterialIds :
              ("MaterialId" \in dirtyBits /\ MeshSyncMaterial(hostMaterialId))
                  => material' = BoundMaterial(hostMaterialId)
        /\ \A hostInstancerId \in {0, 1} : \A instanceTransforms \in InstancerResults :
              ("Instancer" \in dirtyBits
                  /\ MeshSyncInstancer(hostInstancerId, instanceTransforms))
                  => /\ hostInstancerId = 0 => instancesTransforms' = <<Identity>>
                     /\ (hostInstancerId # 0 /\ instancerId # 0)
                            => instancesTransforms' = instanceTransforms
        /\ (pc = "instances" /\ pc' = "idle")
              => \A i \in 1..Len(instances') :
                    instances'[i] >= nextInstance
                        => rInstances'[instances'[i]] =
                              [xf |-> Mul(transform, instancesTransforms[i]),
                               mesh |-> mesh, mat |-> material, vis |-> visible]
      ]_vars

\* ---- C19

\* the instance handles the record has created so far
CreatedInstances == 1..(nextInstance - 1)

\* C19: once Finalize has returned after any sequence of mesh Syncs, every
\* instance handle the record ever created has been destroyed exactly once
\* and the renderer holds none of them; before that no handle is destroyed
\* twice, and a created handle is alive exactly while the record lists it
C19_InstancesDestroyedOnce ==
    /\ \A h \in 1..MaxInstanceHandles :
          /\ rDestroyed[h] <= 1
          /\ h \notin CreatedInstances => rDestroyed[h] = 0
    /\ (pc = "idle" /\ ~finalized)
          => \A h \in CreatedInstances :
                (rDestroyed[h] = 0) <=> (\E i \in 1..Len(instances) : instances[i] = h)
    /\ finalized
          => /\ \A h \in CreatedInstances : rDestroyed[h] = 1
             /\ DOMAIN rInstances \cap CreatedInstances = {}

\* Finalize has returned after a rebuild replaced earlier handles: some
\* handles were destroyed by the rebuild, the last ones by Finalize
C19_Witness ==
    /\ finalized
    /\ lastOp = "Finalize"
    /\ Len(instances) >= 2
    /\ nextInstance - 1 > Len(instances)
    /\ Len(calls) = Len(instances)

\* ---- C20

\* the renderer calls that create a resource or act on an instance
CreatingOps == {"CreateMesh", "CreateInstance", "CreateMaterial"} \cup TextureOps
InstanceOps == {"DestroyInstance", "SetInstanceTransform", "SetInstanceVisibility"}

\* C20: no mesh Sync, material Sync or Finalize mutates or destroys a default
\* of the context: the default material stays as constructed, every
\* slot-binding or ior call is on the synced material's own handle, which is
\* not the default material, every texture call creates a texture beyond the
\* five defaults, and the only destroying calls are on instances
C20_DefaultsUntouched ==
    /\ rMaterials[DefaultMaterial] = InitialMaterial
    /\ \A m \in MaterialIds : matHandle[m] # DefaultMaterial
    /\ \A i \in 1..Len(calls) :
          /\ calls[i][1] \in CreatingOps \cup InstanceOps \cup MaterialSetOps
          /\ calls[i][1] \in MaterialSetOps
                => calls[i][2] = matHandle[self] /\ calls[i][2] # DefaultMaterial
          /\ calls[i][1] \in TextureOps => calls[i][2] > NumDefaultTextures
          /\ calls[i][1] = "CreateMaterial" => calls[i][2] # DefaultMaterial

\* a material Sync has rebound a slot of its own material, which held a
\* default texture, to a texture it made
C20_Witness ==
    /\ pc = "idle"
    /\ lastOp = "MaterialSync"
    /\ \E i \in 1..Len(calls) : calls[i][1] = "SetMaterialColor"
    /\ rMaterials[matHandle[self]].color > NumDefaultTextures
    /\ rMaterials[matHandle[self]].emissive = Black3

\* ---- C21

\* C21: the geometry handle of the record changes, and a mesh is created,
\* only in the points step of a mesh Sync called with the points flag dirty;
\* a Sync called without it issues no mesh-create call, whatever else is dirty
C21_GeometryOnlyWhenPointsDirty ==
    [][ /\ (mesh' # mesh \/ nextMesh' # nextMesh)
              => /\ pc = "idle"
                 /\ lastOp' = "MeshSync"
                 /\ "Points" \in dirtyIn'
        /\ (lastOp' = "MeshSync" /\ "Points" \notin dirtyIn')
              => \A i \in 1..Len(calls') : calls'[i][1] # "CreateMesh" ]_vars

\* a Sync with the material binding dirty and points clean has returned on a
\* record that has geometry, and rebuilt the instances on that geometry
C21_Witness ==
    /\ MeshSyncReturned
    /\ dirtyIn = {"MaterialId"}
    /\ mesh # 0
    /\ Len(instances) >= 1
    /\ calls[Len(calls)] = <<"CreateInstance", instances[Len(instances)]>>
    /\ rInstances[instances[1]].mesh = mesh

\* ---- C22

\* the flags a mesh Sync consumes
MeshConsumedFlags == {"Points", "Visibility", "MaterialId", "Transform", "Instancer"}

\* C22: during and after a Sync the dirty set is a subset of the set passed
\* in; a mesh Sync that returns without failing has cleared points,
\* visibility, material binding, transform and instancer and kept every other
\* flag passed in; a material Sync that got to resolving the inputs returns
\* with params cleared and every other flag passed in kept
C22_FlagsOnlyCleared ==
    /\ lastOp \in {"MeshSync", "MaterialSync"} => dirtyBits \subseteq dirtyIn
    /\ (MeshSyncReturned /\ "EmptyMesh" \notin errors)
          => dirtyBits = dirtyIn \ MeshConsumedFlags
    /\ (entity = "material" /\ SyncReturned /\ "Params" \in dirtyIn
            /\ errors \cap EarlyReturnErrors = {})
          => dirtyBits = dirtyIn \ {"Params"}

\* a mesh Sync called with every flag dirty has returned with only the flag
\* it does not consume left
C22_Witness ==
    /\ MeshSyncReturned
    /\ dirtyIn = Flags
    /\ errors = {"LeftoverDirty"}
    /\ dirtyBits = {"Other"}

\* ---- C23

\* C23 (as stated): every set-transform and set-visibility call of a mesh
\* Sync is on a handle that the record lists and that the renderer holds
\* (created, not destroyed); the in-place transform loop stays below the
\* length of the handle list, so no read past its end happens and the
\* process lives
C23_InPlaceCallsOnListedHandles ==
    [][ (pc = "instances" /\ pc' = "idle")
          => /\ ~crashed'
             /\ \A i \in (Len(calls) + 1)..Len(calls') :
                   calls'[i][1] \in {"SetInstanceTransform", "SetInstanceVisibility"}
                       => /\ \E k \in 1..Len(instances) : instances[k] = calls'[i][2]
                          /\ calls'[i][2] \in DOMAIN rInstances
             /\ (transform_changed
                    /\ ~NeedToRecreate(mesh_changed,
                                       InstancerCountChanged(old_len,
                                                             Len(instancesTransforms)),
                                       material_changed))
                   => Len(instancesTransforms) <= Len(instances) ]_vars

\* ---- C24

\* C24 (as stated): after a mesh Sync that did not fail, the live instances
\* of the renderer are the record's handles, one per entry of the
\* instance-transform list, each with the transform (entity transform x
\* entry i), the geometry, the material and the visibility of the record
C24_RendererMatchesRecord ==
    (MeshSyncReturned /\ "EmptyMesh" \notin errors)
        => /\ Len(instances) = Len(instancesTransforms)
           /\ DOMAIN rInstances = {instances[i] : i \in 1..Len(instances)}
           /\ Cardinality(DOMAIN rInstances) = Len(instancesTransforms)
           /\ \A i \in 1..Len(instances) :
                 rInstances[instances[i]] =
                     [xf |-> Mul(transform, instancesTransforms[i]), mesh |-> mesh,
                      mat |-> material, vis |-> visible]

====
